---- MODULE Spec2Model ----
(***************************************************************************)
(* Structured Field Values (crate sfv): the value model of src/lib.rs, the *)
(* parser and the serializer over it.                                      *)
(*                                                                         *)
(* A byte sequence is a sequence of one-character strings; the bytes that  *)
(* are not printable ASCII are the tokens "\t", DEL and NONASCII; the      *)
(* grave accent, which the lexer does not take in a string, is GRAVE.      *)
(* A number's magnitude is a sequence of decimal digits (0..9), since an   *)
(* i64 of 15 digits does not fit TLC's integers.                           *)
(***************************************************************************)
EXTENDS Integers, Sequences, FiniteSets, TLC

VARIABLES
    op,        \* the operation that ran last
    input,     \* the byte sequence it was given (a parse), or wrote (a serialize)
    arg,       \* the parts the caller built the input from
    value,     \* the in-memory value it was given
    result,    \* what it returned
    reparsed,  \* what parsing the serialized text returned
    dict,      \* a caller's Dictionary, the target of insert and parse_more
    list,      \* a caller's List, the target of parse_more
    data,      \* the bytes handed to parse_dictionary, read step by step
    cursor,    \* its cursor into data
    acc,       \* the members it has read so far
    pc         \* where it is: idle, member, done or error

vars == <<op, input, arg, value, result, reparsed, dict, list, data, cursor, acc, pc>>

(***************************************************************************)
(* Bytes and character classes                                             *)
(***************************************************************************)
SP == " "
HTAB == "\t"
DQUOTE == "\""
BACKSLASH == "\\"
GRAVE == "x60"
DEL == "x7F"
NONASCII == "x80"
EOF == "EOF"

DigitSeq == <<"0", "1", "2", "3", "4", "5", "6", "7", "8", "9">>

LcSeq == <<"a", "b", "c", "d", "e", "f", "g", "h", "i", "j", "k", "l", "m",
           "n", "o", "p", "q", "r", "s", "t", "u", "v", "w", "x", "y", "z">>

UcSeq == <<"A", "B", "C", "D", "E", "F", "G", "H", "I", "J", "K", "L", "M",
           "N", "O", "P", "Q", "R", "S", "T", "U", "V", "W", "X", "Y", "Z">>

Range(s) == {s[i] : i \in 1..Len(s)}

DIGIT == Range(DigitSeq)

lcalpha == Range(LcSeq)

ALPHA == Range(LcSeq) \cup Range(UcSeq)

tchar == {"!", "#", "$", "%", "&", "'", "*", "+", "-", ".", "^", "_", GRAVE, "|", "~"}
           \cup DIGIT \cup ALPHA

\* unescaped = %x20-21 / %x23-5B / %x5D-7E, plus DQUOTE and "\": %x20-7E
VCHAR == tchar \cup {SP, DQUOTE, BACKSLASH, "(", ")", ",", "/", ":", ";", "<",
                     "=", ">", "?", "@", "[", "]", "{", "}"}

is_key_start(c) == c \in lcalpha \cup {"*"}

KeyChars == lcalpha \cup DIGIT \cup {"_", "-", ".", "*"}

is_key_char(c) == c \in KeyChars

is_token_start(c) == c \in ALPHA \cup {"*"}

TokenChars == tchar \cup {":", "/"}

is_token_char(c) == c \in TokenChars

OWS == {SP, HTAB}

DigitVal(c) == CHOOSE d \in 0..9 : DigitSeq[d + 1] = c

DigitChar(d) == DigitSeq[d + 1]

(***************************************************************************)
(* Value model (src/lib.rs)                                                *)
(***************************************************************************)
\* BareItem::Number(Num::Integer(i64)): sign and magnitude, no leading zeros.
Integer(neg, mag) ==
    [t |-> "Integer", neg |-> neg, ip |-> mag, fp |-> <<>>, s |-> <<>>,
     bytes |-> <<>>, b |-> FALSE]

\* BareItem::Number(Num::Decimal(Decimal)): sign, integer digits, fractional
\* digits (Decimal compares by numeric value: no trailing fractional zeros).
Decimal(neg, ip, fp) ==
    [t |-> "Decimal", neg |-> neg, ip |-> ip, fp |-> fp, s |-> <<>>,
     bytes |-> <<>>, b |-> FALSE]

String(s) ==
    [t |-> "String", neg |-> FALSE, ip |-> <<>>, fp |-> <<>>, s |-> s,
     bytes |-> <<>>, b |-> FALSE]

Token(s) ==
    [t |-> "Token", neg |-> FALSE, ip |-> <<>>, fp |-> <<>>, s |-> s,
     bytes |-> <<>>, b |-> FALSE]

ByteSeq(bytes) ==
    [t |-> "ByteSeq", neg |-> FALSE, ip |-> <<>>, fp |-> <<>>, s |-> <<>>,
     bytes |-> bytes, b |-> FALSE]

Boolean(b) ==
    [t |-> "Boolean", neg |-> FALSE, ip |-> <<>>, fp |-> <<>>, s |-> <<>>,
     bytes |-> <<>>, b |-> b]

\* Parameters::new() / Dictionary::new(): the empty ordered map, a sequence of
\* [key, val] entries in insertion order.
Parameters_new == <<>>

Dictionary_new == <<>>

Keys(m) == {m[i].key : i \in 1..Len(m)}

IndexOf(m, k) == CHOOSE i \in 1..Len(m) : m[i].key = k

\* insert with a bug: every insert adds an entry.
insert_append(m, k, v) == Append(m, [key |-> k, val |-> v])

\* IndexMap::insert: an existing key keeps its place and takes the new value,
\* a new key goes to the end.
insert(m, k, v) ==
    IF k \in Keys(m)
    THEN [m EXCEPT ![IndexOf(m, k)] = [key |-> k, val |-> v]]
    ELSE Append(m, [key |-> k, val |-> v])

Item_new(bare_item) == [bare_item |-> bare_item, params |-> Parameters_new]

Item_with_params(bare_item, params) == [bare_item |-> bare_item, params |-> params]

InnerList_new(items) == [items |-> items, params |-> Parameters_new]

InnerList_with_params(items, params) == [items |-> items, params |-> params]

\* impl From<Item> for ListEntry / impl From<InnerList> for ListEntry
ListEntry_Item(item) ==
    [t |-> "Item", bare_item |-> item.bare_item, items |-> <<>>,
     params |-> item.params]

ListEntry_InnerList(il) ==
    [t |-> "InnerList", bare_item |-> Boolean(FALSE), items |-> il.items,
     params |-> il.params]

(***************************************************************************)
(* Parser: one forward cursor `pos` (1-based) over the byte sequence `inp`. *)
(* Every production returns [ok, pos, val]: pos is the cursor after the    *)
(* production, or where it gave up.                                        *)
(***************************************************************************)
Ok(pos, val) == [ok |-> TRUE, pos |-> pos, val |-> val]

Err(pos) == [ok |-> FALSE, pos |-> pos, val |-> <<>>]

\* Peekable::peek: the byte under the cursor, EOF at the end of the input.
Peek(inp, pos) == IF pos <= Len(inp) THEN inp[pos] ELSE EOF

\* The cursor after the longest run of bytes of `set` that starts at pos.
RECURSIVE SkipWhile(_, _, _)
SkipWhile(inp, pos, set) ==
    IF Peek(inp, pos) \in set THEN SkipWhile(inp, pos + 1, set) ELSE pos

consume_sp_chars(inp, pos) == SkipWhile(inp, pos, {SP})

consume_ows_chars(inp, pos) == SkipWhile(inp, pos, OWS)

Slice(inp, from, to) == [i \in 1..(to - from) |-> inp[from + i - 1]]

\* parse_key with a bug: a key may not start with "*".
parse_key_no_star(inp, pos) ==
    IF Peek(inp, pos) \notin lcalpha THEN Err(pos)
    ELSE LET end == SkipWhile(inp, pos + 1, KeyChars)
         IN  Ok(end, Slice(inp, pos, end))

\* key = ( lcalpha / "*" ) *( lcalpha / DIGIT / "_" / "-" / "." / "*" )
parse_key(inp, pos) ==
    IF ~is_key_start(Peek(inp, pos)) THEN Err(pos)
    ELSE LET end == SkipWhile(inp, pos + 1, KeyChars)
         IN  Ok(end, Slice(inp, pos, end))

\* sf-token = ( ALPHA / "*" ) *( tchar / ":" / "/" )
parse_token(inp, pos) ==
    IF ~is_token_start(Peek(inp, pos)) THEN Err(pos)
    ELSE LET end == SkipWhile(inp, pos + 1, TokenChars)
         IN  Ok(end, Token(Slice(inp, pos, end)))

\* sf-boolean = "?" ( "0" / "1" )
parse_bool(inp, pos) ==
    IF Peek(inp, pos) # "?" THEN Err(pos)
    ELSE IF Peek(inp, pos + 1) = "1" THEN Ok(pos + 2, Boolean(TRUE))
    ELSE IF Peek(inp, pos + 1) = "0" THEN Ok(pos + 2, Boolean(FALSE))
    ELSE Err(pos + 1)

\* parse_string_chars with a bug: the "\" of an escape is kept in the text.
RECURSIVE parse_string_chars_raw(_, _, _)
parse_string_chars_raw(inp, pos, out) ==
    IF Peek(inp, pos) = DQUOTE THEN Ok(pos + 1, String(out))
    ELSE IF Peek(inp, pos) = BACKSLASH
    THEN IF Peek(inp, pos + 1) \in {DQUOTE, BACKSLASH}
         THEN parse_string_chars_raw(inp, pos + 2,
                  out \o <<BACKSLASH, inp[pos + 1]>>)
         ELSE Err(pos + 1)
    ELSE IF Peek(inp, pos) \in VCHAR
    THEN parse_string_chars_raw(inp, pos + 1, Append(out, inp[pos]))
    ELSE Err(pos)

\* sf-string = DQUOTE *chr DQUOTE; the cursor is after the opening DQUOTE and
\* `out` holds the unescaped text read so far.
RECURSIVE parse_string_chars(_, _, _)
parse_string_chars(inp, pos, out) ==
    LET c == Peek(inp, pos) IN
    IF c = DQUOTE THEN Ok(pos + 1, String(out))
    ELSE IF c = BACKSLASH
    THEN IF Peek(inp, pos + 1) \in {DQUOTE, BACKSLASH}
         THEN parse_string_chars(inp, pos + 2, Append(out, inp[pos + 1]))
         ELSE Err(pos + 1)
    ELSE IF c \in VCHAR THEN parse_string_chars(inp, pos + 1, Append(out, c))
    ELSE Err(pos)

parse_string(inp, pos) ==
    IF Peek(inp, pos) # DQUOTE THEN Err(pos)
    ELSE parse_string_chars(inp, pos + 1, <<>>)

\* The digits of a run of digit bytes, as numbers.
Digits(inp, from, to) == [i \in 1..(to - from) |-> DigitVal(inp[from + i - 1])]

\* A magnitude without its leading zeros (zero is <<0>>).
RECURSIVE StripLeadingZeros(_)
StripLeadingZeros(ds) ==
    IF Len(ds) > 1 /\ ds[1] = 0 THEN StripLeadingZeros(Tail(ds)) ELSE ds

\* Fractional digits without their trailing zeros (none is <<>>).
RECURSIVE StripTrailingZeros(_)
StripTrailingZeros(ds) ==
    IF Len(ds) > 0 /\ ds[Len(ds)] = 0
    THEN StripTrailingZeros(SubSeq(ds, 1, Len(ds) - 1))
    ELSE ds

IsZero(ds) == \A i \in 1..Len(ds) : ds[i] = 0

MaxIntegerDigits == 15

MaxDecimalIntDigits == 12

MaxDecimalFracDigits == 3

\* parse_number with a bug: a fraction of more than 3 digits is cut to its
\* first 3 digits, and a 16th integer digit is taken.
parse_number_truncating(inp, pos) ==
    LET neg   == Peek(inp, pos) = "-"
        start == IF neg THEN pos + 1 ELSE pos
        end   == SkipWhile(inp, start, DIGIT)
        n     == end - start
        ip    == StripLeadingZeros(Digits(inp, start, end))
    IN
    IF n = 0 THEN Err(start)
    ELSE IF Peek(inp, end) = "."
    THEN LET fend == SkipWhile(inp, end + 1, DIGIT)
             m    == fend - (end + 1)
             kept == IF m > MaxDecimalFracDigits THEN MaxDecimalFracDigits ELSE m
             fp   == StripTrailingZeros(Digits(inp, end + 1, end + 1 + kept))
         IN  IF n > MaxDecimalIntDigits THEN Err(end)
             ELSE IF m = 0 THEN Err(fend)
             ELSE Ok(fend, Decimal(neg /\ ~(IsZero(ip) /\ IsZero(fp)), ip, fp))
    ELSE IF n > MaxIntegerDigits + 1 THEN Err(end)
    ELSE Ok(end, Integer(neg /\ ~IsZero(ip), ip))

\* sf-integer = ["-"] 1*15DIGIT
\* sf-decimal = ["-"] 1*12DIGIT "." 1*3DIGIT
parse_number(inp, pos) ==
    LET neg   == Peek(inp, pos) = "-"
        start == IF neg THEN pos + 1 ELSE pos
        end   == SkipWhile(inp, start, DIGIT)
        n     == end - start
        ip    == StripLeadingZeros(Digits(inp, start, end))
    IN
    IF n = 0 THEN Err(start)
    ELSE IF Peek(inp, end) = "."
    THEN LET fend == SkipWhile(inp, end + 1, DIGIT)
             m    == fend - (end + 1)
             fp   == StripTrailingZeros(Digits(inp, end + 1, fend))
         IN  IF n > MaxDecimalIntDigits THEN Err(end)
             ELSE IF m = 0 \/ m > MaxDecimalFracDigits THEN Err(fend)
             ELSE Ok(fend, Decimal(neg /\ ~(IsZero(ip) /\ IsZero(fp)), ip, fp))
    ELSE IF n > MaxIntegerDigits THEN Err(end)
    ELSE Ok(end, Integer(neg /\ ~IsZero(ip), ip))

\* base64 = ALPHA / DIGIT / "+" / "/" / "=" (standard alphabet, with padding)
B64Alphabet == UcSeq \o LcSeq \o DigitSeq \o <<"+", "/">>

B64Chars == Range(B64Alphabet)

B64Index(c) == CHOOSE i \in 0..63 : B64Alphabet[i + 1] = c

B64Char(i) == B64Alphabet[i + 1]

\* The bytes of one group of four base64 characters (the last group may end
\* in one or two "=").
B64Group(g) ==
    LET a == B64Index(g[1])
        b == B64Index(g[2])
        c == IF g[3] = "=" THEN 0 ELSE B64Index(g[3])
        d == IF g[4] = "=" THEN 0 ELSE B64Index(g[4])
        x == a * 4 + b \div 16
        y == (b % 16) * 16 + c \div 4
        z == (c % 4) * 64 + d
    IN  IF g[3] = "=" THEN <<x>>
        ELSE IF g[4] = "=" THEN <<x, y>>
        ELSE <<x, y, z>>

B64GroupOk(g, last) ==
    /\ g[1] \in B64Chars
    /\ g[2] \in B64Chars
    /\ g[3] \in B64Chars \/ (last /\ g[3] = "=" /\ g[4] = "=")
    /\ g[4] \in B64Chars \/ (last /\ g[4] = "=")

B64Valid(txt) ==
    /\ Len(txt) % 4 = 0
    /\ \A k \in 0..(Len(txt) \div 4 - 1) :
          B64GroupOk(SubSeq(txt, 4 * k + 1, 4 * k + 4), 4 * k + 4 = Len(txt))

RECURSIVE B64Decode(_)
B64Decode(txt) ==
    IF Len(txt) = 0 THEN <<>>
    ELSE B64Group(SubSeq(txt, 1, 4)) \o B64Decode(SubSeq(txt, 5, Len(txt)))

RECURSIVE B64Encode(_)
B64Encode(bytes) ==
    IF Len(bytes) = 0 THEN <<>>
    ELSE LET x == bytes[1]
             y == IF Len(bytes) >= 2 THEN bytes[2] ELSE 0
             z == IF Len(bytes) >= 3 THEN bytes[3] ELSE 0
             c1 == B64Char(x \div 4)
             c2 == B64Char((x % 4) * 16 + y \div 16)
             c3 == B64Char((y % 16) * 4 + z \div 64)
             c4 == B64Char(z % 64)
         IN  IF Len(bytes) = 1 THEN <<c1, c2, "=", "=">>
             ELSE IF Len(bytes) = 2 THEN <<c1, c2, c3, "=">>
             ELSE <<c1, c2, c3, c4>> \o B64Encode(SubSeq(bytes, 4, Len(bytes)))

\* sf-binary = ":" *(base64) ":"
parse_byte_sequence(inp, pos) ==
    IF Peek(inp, pos) # ":" THEN Err(pos)
    ELSE LET end == SkipWhile(inp, pos + 1, B64Chars \cup {"="})
             txt == Slice(inp, pos + 1, end)
         IN  IF Peek(inp, end) # ":" \/ ~B64Valid(txt) THEN Err(end)
             ELSE Ok(end + 1, ByteSeq(B64Decode(txt)))

\* bare-item = sf-integer / sf-decimal / sf-string / sf-token / sf-binary
\*             / sf-boolean, chosen by the first byte.
parse_bare_item(inp, pos) ==
    LET c == Peek(inp, pos) IN
    IF c \in DIGIT \cup {"-"} THEN parse_number(inp, pos)
    ELSE IF c = DQUOTE THEN parse_string(inp, pos)
    ELSE IF c = ":" THEN parse_byte_sequence(inp, pos)
    ELSE IF c = "?" THEN parse_bool(inp, pos)
    ELSE IF is_token_start(c) THEN parse_token(inp, pos)
    ELSE Err(pos)

\* parameters = *( ";" *SP parameter )
\* parameter  = param-name [ "=" param-value ]
\* A repeated key takes the later value, in its first place (insert).
RECURSIVE parse_parameters_from(_, _, _)
param_after_value(inp, params, key, v) ==
    IF ~v.ok THEN v
    ELSE parse_parameters_from(inp, v.pos, insert(params, key, v.val))

param_after_key(inp, params, k) ==
    IF ~k.ok THEN k
    ELSE IF Peek(inp, k.pos) = "="
    THEN param_after_value(inp, params, k.val, parse_bare_item(inp, k.pos + 1))
    ELSE parse_parameters_from(inp, k.pos, insert(params, k.val, Boolean(TRUE)))

\* param_ws with a bug: tabs are skipped too.
param_ws_ows(inp, pos) == consume_ows_chars(inp, pos)

\* The whitespace allowed after the ";" of a parameter: *SP.
param_ws(inp, pos) == consume_sp_chars(inp, pos)

parse_parameters_from(inp, pos, params) ==
    IF Peek(inp, pos) # ";" THEN Ok(pos, params)
    ELSE param_after_key(inp, params, parse_key(inp, param_ws(inp, pos + 1)))

parse_parameters(inp, pos) == parse_parameters_from(inp, pos, Parameters_new)

\* sf-item = bare-item parameters
item_of(b, p) == IF ~p.ok THEN p ELSE Ok(p.pos, Item_with_params(b.val, p.val))

item_after_bare(inp, b) ==
    IF ~b.ok THEN b ELSE item_of(b, parse_parameters(inp, b.pos))

parse_item(inp, pos) == item_after_bare(inp, parse_bare_item(inp, pos))

\* inner-list = "(" *SP [ sf-item *( 1*SP sf-item ) *SP ] ")" parameters
RECURSIVE parse_inner_list_from(_, _, _)
inner_list_of(items, p) ==
    IF ~p.ok THEN p ELSE Ok(p.pos, InnerList_with_params(items, p.val))

inner_after_item(inp, items, it) ==
    IF ~it.ok THEN it
    ELSE IF Peek(inp, it.pos) \notin {SP, ")"} THEN Err(it.pos)
    ELSE parse_inner_list_from(inp, it.pos, Append(items, it.val))

inner_at(inp, pos, items) ==
    IF Peek(inp, pos) = ")"
    THEN inner_list_of(items, parse_parameters(inp, pos + 1))
    ELSE inner_after_item(inp, items, parse_item(inp, pos))

\* The whitespace allowed around the items of an inner list: *SP.
inner_ws(inp, pos) == consume_sp_chars(inp, pos)

parse_inner_list_from(inp, pos, items) == inner_at(inp, inner_ws(inp, pos), items)

parse_inner_list(inp, pos) ==
    IF Peek(inp, pos) # "(" THEN Err(pos)
    ELSE parse_inner_list_from(inp, pos + 1, <<>>)

\* list-member / member-value = sf-item / inner-list
entry_of_inner(r) == IF ~r.ok THEN r ELSE Ok(r.pos, ListEntry_InnerList(r.val))

entry_of_item(r) == IF ~r.ok THEN r ELSE Ok(r.pos, ListEntry_Item(r.val))

parse_list_entry(inp, pos) ==
    IF Peek(inp, pos) = "("
    THEN entry_of_inner(parse_inner_list(inp, pos))
    ELSE entry_of_item(parse_item(inp, pos))

Step(st, pos, val) == [st |-> st, pos |-> pos, val |-> val]

\* What follows a member of a List or Dictionary: the end of the input, or
\* OWS "," OWS and one more member. st is "more", "done" or "error".
\* after_comma with a bug: a comma at the end of the input ends the value.
after_comma_lenient(inp, pos, members) ==
    IF Peek(inp, pos) = EOF THEN Step("done", pos, members)
    ELSE Step("more", pos, members)

after_comma(inp, pos, members) ==
    IF Peek(inp, pos) = EOF THEN Step("error", pos, members)
    ELSE Step("more", pos, members)

\* after_ows with a bug: the byte after a member is stepped over unread.
after_ows_unchecked(inp, pos, members) ==
    IF Peek(inp, pos) = ","
    THEN after_comma(inp, consume_ows_chars(inp, pos + 1), members)
    ELSE Step("more", pos + 1, members)

after_ows(inp, pos, members) ==
    IF Peek(inp, pos) = EOF THEN Step("done", pos, members)
    ELSE IF Peek(inp, pos) # "," THEN Step("error", pos, members)
    ELSE after_comma(inp, consume_ows_chars(inp, pos + 1), members)

after_member(inp, pos, members) ==
    after_ows(inp, consume_ows_chars(inp, pos), members)

\* One turn of the List loop: one member and what follows it.
\* sf-list = list-member *( OWS "," OWS list-member )
list_after_entry(inp, members, m) ==
    IF ~m.ok THEN Step("error", m.pos, members)
    ELSE after_member(inp, m.pos, Append(members, m.val))

list_step(inp, pos, members) ==
    list_after_entry(inp, members, parse_list_entry(inp, pos))

\* One turn of the Dictionary loop. A member without "=" is Boolean(true)
\* with the parameters that follow the key; a repeated key takes the later
\* value, in its first place (insert).
\* sf-dictionary = dict-member *( OWS "," OWS dict-member )
\* dict-member   = member-name [ "=" member-value ]
dict_after_entry(inp, members, key, m) ==
    IF ~m.ok THEN Step("error", m.pos, members)
    ELSE after_member(inp, m.pos, insert(members, key, m.val))

dict_after_params(inp, members, key, p) ==
    IF ~p.ok THEN Step("error", p.pos, members)
    ELSE after_member(inp, p.pos,
             insert(members, key,
                    ListEntry_Item(Item_with_params(Boolean(TRUE), p.val))))

dict_after_key(inp, members, k) ==
    IF ~k.ok THEN Step("error", k.pos, members)
    ELSE IF Peek(inp, k.pos) = "="
    THEN dict_after_entry(inp, members, k.val, parse_list_entry(inp, k.pos + 1))
    ELSE dict_after_params(inp, members, k.val, parse_parameters(inp, k.pos))

dict_step(inp, pos, members) == dict_after_key(inp, members, parse_key(inp, pos))

\* The loops: members until the end of the input.
RECURSIVE list_loop(_, _, _)
list_next(inp, r) ==
    IF r.st = "error" THEN Err(r.pos)
    ELSE IF r.st = "done" THEN Ok(r.pos, r.val)
    ELSE list_loop(inp, r.pos, r.val)

list_loop(inp, pos, members) ==
    IF Peek(inp, pos) = EOF THEN Ok(pos, members)
    ELSE list_next(inp, list_step(inp, pos, members))

RECURSIVE dict_loop(_, _, _)
dict_next(inp, r) ==
    IF r.st = "error" THEN Err(r.pos)
    ELSE IF r.st = "done" THEN Ok(r.pos, r.val)
    ELSE dict_loop(inp, r.pos, r.val)

dict_loop(inp, pos, members) ==
    IF Peek(inp, pos) = EOF THEN Ok(pos, members)
    ELSE dict_next(inp, dict_step(inp, pos, members))

\* An entry point reads the whole input: whitespace, the value, whitespace,
\* and then the end of the input.
leading(inp) == consume_ows_chars(inp, 1)

at_end(inp, pos, val) == IF Peek(inp, pos) # EOF THEN Err(pos) ELSE Ok(pos, val)

trailing(inp, r) ==
    IF ~r.ok THEN r ELSE at_end(inp, consume_ows_chars(inp, r.pos), r.val)

Parser_parse_item(inp) == trailing(inp, parse_item(inp, leading(inp)))

Parser_parse_list(inp) == trailing(inp, list_loop(inp, leading(inp), <<>>))

Parser_parse_dictionary(inp) ==
    trailing(inp, dict_loop(inp, leading(inp), Dictionary_new))

(***************************************************************************)
(* Serializer: every operation returns [ok, text].                         *)
(***************************************************************************)
SOk(text) == [ok |-> TRUE, text |-> text]

SErr == [ok |-> FALSE, text |-> <<>>]

\* a then b, failing when either failed.
Cat(a, b) == IF a.ok /\ b.ok THEN SOk(a.text \o b.text) ELSE SErr

DigitChars(ds) == [i \in 1..Len(ds) |-> DigitChar(ds[i])]

Sign(neg) == IF neg THEN <<"-">> ELSE <<>>

valid_key(k) ==
    /\ Len(k) > 0
    /\ is_key_start(k[1])
    /\ \A i \in 2..Len(k) : is_key_char(k[i])

serialize_key(k) == IF valid_key(k) THEN SOk(k) ELSE SErr

serialize_integer(v) ==
    IF Len(v.ip) > MaxIntegerDigits THEN SErr
    ELSE SOk(Sign(v.neg) \o DigitChars(v.ip))

\* A digit sequence plus one in its last place (a leading carry adds a digit).
RECURSIVE Increment(_)
Increment(ds) ==
    IF Len(ds) = 0 THEN <<1>>
    ELSE IF ds[Len(ds)] < 9 THEN [ds EXCEPT ![Len(ds)] = @ + 1]
    ELSE Append(Increment(SubSeq(ds, 1, Len(ds) - 1)), 0)

\* round_dp with a bug: a tie always goes up.
round_dp_half_up(ip, fp) ==
    IF Len(fp) <= MaxDecimalFracDigits THEN [ip |-> ip, fp |-> fp]
    ELSE LET keep == SubSeq(fp, 1, MaxDecimalFracDigits)
             all  == IF fp[MaxDecimalFracDigits + 1] >= 5
                     THEN Increment(ip \o keep) ELSE ip \o keep
             n    == Len(all) - MaxDecimalFracDigits
         IN  [ip |-> SubSeq(all, 1, n), fp |-> SubSeq(all, n + 1, Len(all))]

\* Decimal::round_dp(3): the value at 3 fractional digits, a tie going to the
\* even last digit. The result is [ip, fp] with exactly 3 digits in fp when
\* digits were dropped.
round_dp(ip, fp) ==
    IF Len(fp) <= MaxDecimalFracDigits THEN [ip |-> ip, fp |-> fp]
    ELSE LET keep    == SubSeq(fp, 1, MaxDecimalFracDigits)
             first   == fp[MaxDecimalFracDigits + 1]
             rest    == SubSeq(fp, MaxDecimalFracDigits + 2, Len(fp))
             lastOdd == keep[MaxDecimalFracDigits] % 2 = 1
             up      == \/ first > 5
                        \/ first = 5 /\ ~IsZero(rest)
                        \/ first = 5 /\ IsZero(rest) /\ lastOdd
             all     == IF up THEN Increment(ip \o keep) ELSE ip \o keep
             n       == Len(all) - MaxDecimalFracDigits
         IN  [ip |-> SubSeq(all, 1, n), fp |-> SubSeq(all, n + 1, Len(all))]

serialize_decimal(v) ==
    LET r  == round_dp(v.ip, v.fp)
        fp == StripTrailingZeros(r.fp)
    IN  IF Len(r.ip) > MaxDecimalIntDigits THEN SErr
        ELSE SOk(Sign(v.neg) \o DigitChars(r.ip) \o <<".">>
                 \o (IF Len(fp) = 0 THEN <<"0">> ELSE DigitChars(fp)))

RECURSIVE Escape(_)
Escape(s) ==
    IF Len(s) = 0 THEN <<>>
    ELSE (IF s[1] \in {DQUOTE, BACKSLASH} THEN <<BACKSLASH, s[1]>> ELSE <<s[1]>>)
         \o Escape(Tail(s))

serialize_string(v) ==
    IF \E i \in 1..Len(v.s) : v.s[i] \notin VCHAR THEN SErr
    ELSE SOk(<<DQUOTE>> \o Escape(v.s) \o <<DQUOTE>>)

valid_token(s) ==
    /\ Len(s) > 0
    /\ is_token_start(s[1])
    /\ \A i \in 2..Len(s) : is_token_char(s[i])

serialize_token(v) == IF valid_token(v.s) THEN SOk(v.s) ELSE SErr

serialize_byte_sequence(v) == SOk(<<":">> \o B64Encode(v.bytes) \o <<":">>)

serialize_bool(v) == SOk(IF v.b THEN <<"?", "1">> ELSE <<"?", "0">>)

serialize_bare_item(v) ==
    CASE v.t = "Integer" -> serialize_integer(v)
      [] v.t = "Decimal" -> serialize_decimal(v)
      [] v.t = "String"  -> serialize_string(v)
      [] v.t = "Token"   -> serialize_token(v)
      [] v.t = "ByteSeq" -> serialize_byte_sequence(v)
      [] v.t = "Boolean" -> serialize_bool(v)

\* serialize_parameter with a bug: Boolean(true) is written out as "=?1".
serialize_parameter_explicit(p) ==
    Cat(Cat(SOk(<<";">>), serialize_key(p.key)),
        Cat(SOk(<<"=">>), serialize_bare_item(p.val)))

\* One parameter: ";key", and "=value" unless the value is Boolean(true).
serialize_parameter(p) ==
    IF p.val = Boolean(TRUE)
    THEN Cat(SOk(<<";">>), serialize_key(p.key))
    ELSE Cat(Cat(SOk(<<";">>), serialize_key(p.key)),
             Cat(SOk(<<"=">>), serialize_bare_item(p.val)))

RECURSIVE serialize_parameters(_)
serialize_parameters(params) ==
    IF Len(params) = 0 THEN SOk(<<>>)
    ELSE Cat(serialize_parameter(params[1]), serialize_parameters(Tail(params)))

serialize_item(item) ==
    Cat(serialize_bare_item(item.bare_item), serialize_parameters(item.params))

\* The items of an inner list, one space between two of them.
RECURSIVE serialize_items(_)
serialize_items(items) ==
    IF Len(items) = 0 THEN SOk(<<>>)
    ELSE IF Len(items) = 1 THEN serialize_item(items[1])
    ELSE Cat(Cat(serialize_item(items[1]), SOk(<<SP>>)),
             serialize_items(Tail(items)))

serialize_inner_list(il) ==
    Cat(Cat(SOk(<<"(">>), serialize_items(il.items)),
        Cat(SOk(<<")">>), serialize_parameters(il.params)))

serialize_list_entry(e) ==
    IF e.t = "Item"
    THEN serialize_item(Item_with_params(e.bare_item, e.params))
    ELSE serialize_inner_list(InnerList_with_params(e.items, e.params))

\* The members of a List, ", " between two of them.
RECURSIVE serialize_list(_)
serialize_list(members) ==
    IF Len(members) = 0 THEN SOk(<<>>)
    ELSE IF Len(members) = 1 THEN serialize_list_entry(members[1])
    ELSE Cat(Cat(serialize_list_entry(members[1]), SOk(<<",", SP>>)),
             serialize_list(Tail(members)))

\* One member of a Dictionary: the key alone (and the item's parameters) when
\* the value is an Item of Boolean(true), key=value otherwise.
serialize_dict_member(m) ==
    IF m.val.t = "Item" /\ m.val.bare_item = Boolean(TRUE)
    THEN Cat(serialize_key(m.key), serialize_parameters(m.val.params))
    ELSE Cat(Cat(serialize_key(m.key), SOk(<<"=">>)), serialize_list_entry(m.val))

RECURSIVE serialize_dict(_)
serialize_dict(members) ==
    IF Len(members) = 0 THEN SOk(<<>>)
    ELSE IF Len(members) = 1 THEN serialize_dict_member(members[1])
    ELSE Cat(Cat(serialize_dict_member(members[1]), SOk(<<",", SP>>)),
             serialize_dict(Tail(members)))

(***************************************************************************)
(* The state machine. A caller picks the input of a parse (its bytes and   *)
(* the parts they were built from) and runs one entry point on it, or      *)
(* picks a value and serializes it.                                        *)
(***************************************************************************)
None == [ok |-> FALSE, pos |-> 0, val |-> <<>>]

\* The state before any operation, the caller holding `inp` built from `parts`.
Start(inp, parts) ==
    /\ op = "init"
    /\ input = inp
    /\ arg = parts
    /\ value = <<>>
    /\ result = None
    /\ reparsed = None
    /\ dict = Dictionary_new
    /\ list = <<>>
    /\ data = <<>>
    /\ cursor = 1
    /\ acc = Dictionary_new
    /\ pc = "idle"

\* All byte sequences over `alphabet` of at most n bytes.
Strs(alphabet, n) == {<<>>} \cup UNION {[1..k -> alphabet] : k \in 1..n}

Rep(c, n) == [i \in 1..n |-> c]

ParseItem ==
    /\ op = "init"
    /\ op' = "parse_item"
    /\ result' = Parser_parse_item(input)
    /\ UNCHANGED <<input, arg, value, reparsed, dict, list, data, cursor, acc, pc>>

ParseList ==
    /\ op = "init"
    /\ op' = "parse_list"
    /\ result' = Parser_parse_list(input)
    /\ UNCHANGED <<input, arg, value, reparsed, dict, list, data, cursor, acc, pc>>

ParseDictionary ==
    /\ op = "init"
    /\ op' = "parse_dictionary"
    /\ result' = Parser_parse_dictionary(input)
    /\ UNCHANGED <<input, arg, value, reparsed, dict, list, data, cursor, acc, pc>>

(***************************************************************************)
(* SpecEntry: the three entry points on every short byte sequence over a  *)
(* small alphabet of members, separators and whitespace.                   *)
(***************************************************************************)
MaxEntryLen == 5

EntryAlphabet == {"a", "1", ",", ";", "=", SP, HTAB}

InitEntry == \E inp \in Strs(EntryAlphabet, MaxEntryLen) : Start(inp, <<>>)

NextEntry == ParseItem \/ ParseList \/ ParseDictionary

SpecEntry == InitEntry /\ [][NextEntry]_vars

IsParse == op \in {"parse_item", "parse_list", "parse_dictionary"}

IsCollection == op \in {"parse_list", "parse_dictionary"}

AllIn(inp, set) == \A i \in 1..Len(inp) : inp[i] \in set

\* The input ends in a comma and then nothing but whitespace.
EndsInComma(inp) ==
    \E i \in 1..Len(inp) :
        inp[i] = "," /\ \A j \in (i + 1)..Len(inp) : inp[j] \in OWS

MaxIntRun == 17

MaxFracRun == 5

NumDigits == {0, 1, 9}

NumText(a) ==
    Sign(a.neg) \o Rep(DigitChar(a.d), a.n)
    \o (IF a.dot THEN <<".">> \o Rep(DigitChar(a.d2), a.m) ELSE <<>>)

NumShapes ==
    {a \in [neg : BOOLEAN, d : NumDigits, n : 0..MaxIntRun, dot : BOOLEAN,
            d2 : NumDigits, m : 0..MaxFracRun] :
        a.dot \/ (a.d2 = 0 /\ a.m = 0)}

InitNum == \E a \in NumShapes : Start(NumText(a), a)

NextNum == ParseItem

SpecNum == InitNum /\ [][NextNum]_vars

\* The magnitude written as n copies of digit d, and the fraction written as
\* m copies of digit d.
MagOf(d, n) == IF d = 0 THEN <<0>> ELSE Rep(d, n)

FracOf(d, m) == IF d = 0 THEN <<>> ELSE Rep(d, m)

\* C7: a number without a dot parses exactly when it has 1 to 15 digits, and
\* then as the Integer of those digits; a number with a dot parses exactly
\* when it has 1 to 12 digits before the dot and 1 to 3 after it, and then as
\* the Decimal of those digits (no digit dropped).
C7_DigitBounds ==
    op = "parse_item" =>
        IF arg.dot
        THEN /\ result.ok <=> (arg.n \in 1..12 /\ arg.m \in 1..3)
             /\ result.ok =>
                   result.val.bare_item =
                       Decimal(arg.neg /\ (arg.d # 0 \/ arg.d2 # 0),
                               MagOf(arg.d, arg.n), FracOf(arg.d2, arg.m))
        ELSE /\ result.ok <=> arg.n \in 1..15
             /\ result.ok =>
                   result.val.bare_item =
                       Integer(arg.neg /\ arg.d # 0, MagOf(arg.d, arg.n))

C7_Witness ==
    /\ op = "parse_item"
    /\ \/ ~arg.dot /\ arg.n = 15 /\ arg.d = 9 /\ result.ok
       \/ ~arg.dot /\ arg.n = 16 /\ arg.d = 1 /\ ~result.ok
       \/ arg.dot /\ arg.n = 13 /\ arg.m = 1 /\ ~result.ok
       \/ arg.dot /\ arg.n = 12 /\ arg.m = 3 /\ result.ok
       \/ arg.dot /\ arg.n = 1 /\ arg.m = 4 /\ ~result.ok
       \/ arg.dot /\ arg.n = 1 /\ arg.m = 0 /\ ~result.ok

(***************************************************************************)
(* SpecWs: whitespace after the ";" of a parameter and inside an inner     *)
(* list. The input is "a;" w1 "b" (an item, a list of one item, or a       *)
(* dictionary of one member), or "(" w1 "1" w2 "b" w3 ")", bare as a list  *)
(* and after "k=" as a dictionary, for w1, w2, w3 runs of spaces and tabs. *)
(***************************************************************************)
MaxWs == 2

WsRuns == Strs(OWS, MaxWs)

WsText(a) ==
    CASE a.kind = "param" -> <<"a", ";">> \o a.w1 \o <<"b">>
      [] a.kind = "inner_list" ->
             <<"(">> \o a.w1 \o <<"1">> \o a.w2 \o <<"b">> \o a.w3 \o <<")">>
      [] a.kind = "inner_dict" ->
             <<"k", "=", "(">> \o a.w1 \o <<"1">> \o a.w2 \o <<"b">> \o a.w3 \o <<")">>

WsShapes ==
    {a \in [kind : {"param", "inner_list", "inner_dict"},
            w1 : WsRuns, w2 : WsRuns, w3 : WsRuns] :
        a.kind = "param" => (a.w2 = <<>> /\ a.w3 = <<>>)}

InitWs == \E a \in WsShapes : Start(WsText(a), a)

NextWs == ParseItem \/ ParseList \/ ParseDictionary

SpecWs == InitWs /\ [][NextWs]_vars

\* The pairs of input shape and entry point for which the shape is a value.
WsCase ==
    \/ arg.kind = "param" /\ IsParse
    \/ arg.kind = "inner_list" /\ op = "parse_list"
    \/ arg.kind = "inner_dict" /\ op = "parse_dictionary"

TokenItem(c) == Item_new(Token(<<c>>))

ItemAB == Item_with_params(Token(<<"a">>), insert(Parameters_new, <<"b">>, Boolean(TRUE)))

InnerAB ==
    ListEntry_InnerList(
        InnerList_new(<<Item_new(Integer(FALSE, <<1>>)), TokenItem("b")>>))

\* The value the input stands for, whatever its whitespace.
WsValue ==
    CASE arg.kind = "param" /\ op = "parse_item" -> ItemAB
      [] arg.kind = "param" /\ op = "parse_list" -> <<ListEntry_Item(ItemAB)>>
      [] arg.kind = "param" /\ op = "parse_dictionary" ->
             insert(Dictionary_new, <<"a">>,
                    ListEntry_Item(Item_with_params(Boolean(TRUE), ItemAB.params)))
      [] arg.kind = "inner_list" -> <<InnerAB>>
      [] arg.kind = "inner_dict" -> insert(Dictionary_new, <<"k">>, InnerAB)

\* C10, as the grammar has it: only spaces are taken after the ";" of a
\* parameter, after "(" and before ")"; a tab in any of these places makes the
\* parse fail, and two items of an inner list need one or more spaces between
\* them. With spaces alone the input parses to the same value whatever their
\* number.
C10_SpacesOnly ==
    WsCase =>
        /\ result.ok <=>
               /\ AllIn(arg.w1, {SP})
               /\ AllIn(arg.w3, {SP})
               /\ arg.kind # "param" => (AllIn(arg.w2, {SP}) /\ Len(arg.w2) > 0)
        /\ result.ok => result.val = WsValue

C10_Witness ==
    \/ op = "parse_item" /\ input = <<"a", ";", SP, SP, "b">> /\ result.ok
    \/ op = "parse_list" /\ input = <<"(", SP, "1", SP, "b", SP, ")">> /\ result.ok

\* C10 as claimed: spaces and tabs are both taken after ";", after "(" and
\* before ")".
C10_TabsToo ==
    (WsCase /\ (arg.kind # "param" => (AllIn(arg.w2, {SP}) /\ Len(arg.w2) > 0)))
        => result.ok

(***************************************************************************)
(* SpecSer: serialize_value on values built with the constructors, valid   *)
(* and not, and the matching entry point on the text it wrote.            *)
(***************************************************************************)
Nines(n) == Rep(9, n)

\* The values of the documentation's examples and the text each is
\* documented to serialize to.
DocStrItem == Item_new(String(<<"f", "o", "o">>))

DocStrItemText == <<DQUOTE, "f", "o", "o", DQUOTE>>

DocParamItem ==
    Item_with_params(Integer(FALSE, <<9, 9>>),
        insert(Parameters_new, <<"k", "e", "y">>, Decimal(FALSE, <<1, 3>>, <<4, 5, 6, 5, 5>>)))

DocParamItemText == <<"9", "9", ";", "k", "e", "y", "=", "1", "3", ".",
                      "4", "5", "7">>

DocInnerList ==
    InnerList_with_params(
        <<Item_with_params(Integer(FALSE, <<9, 9>>),
                           insert(Parameters_new, <<"k", "e", "y">>, Boolean(FALSE))),
          Item_new(String(<<"f", "o", "o">>))>>,
        insert(Parameters_new, <<"b", "a", "r">>, Boolean(TRUE)))

DocList ==
    <<ListEntry_Item(Item_new(Token(<<"t", "o", "k">>))), ListEntry_InnerList(DocInnerList)>>

DocListText ==
    <<"t", "o", "k", ",", SP, "(", "9", "9", ";", "k", "e", "y", "=",
      "?", "0", SP, DQUOTE, "f", "o", "o", DQUOTE, ")", ";", "b", "a",
      "r">>

DocDict ==
    insert(insert(insert(Dictionary_new,
        <<"k", "e", "y", "1">>, ListEntry_Item(Item_new(String(<<"a", "p", "p", "l", "e">>)))),
        <<"k", "e", "y", "2">>, ListEntry_Item(Item_new(Boolean(TRUE)))),
        <<"k", "e", "y", "3">>, ListEntry_Item(Item_new(Boolean(FALSE))))

DocDictText ==
    <<"k", "e", "y", "1", "=", DQUOTE, "a", "p", "p", "l", "e", DQUOTE,
      ",", SP, "k", "e", "y", "2", ",", SP, "k", "e", "y", "3", "=",
      "?", "0">>

Integers ==
    {Integer(FALSE, <<0>>), Integer(FALSE, <<9, 9>>), Integer(TRUE, <<5>>),
     Integer(TRUE, Nines(15)), Integer(FALSE, <<1>> \o Rep(0, 15))}

Decimals ==
    {Decimal(FALSE, <<1>>, <<5>>), Decimal(TRUE, <<0>>, <<2, 5>>),
     Decimal(FALSE, <<2>>, <<>>), Decimal(FALSE, <<1, 3>>, <<4, 5, 6, 5, 5>>),
     Decimal(FALSE, Nines(12), <<9, 9, 9>>), Decimal(TRUE, Nines(12), <<9, 9, 9, 5>>),
     Decimal(FALSE, Nines(13), <<5>>)}

Strings ==
    {String(<<>>), String(<<"f", "o", "o">>), String(<<"a", DQUOTE, "b", BACKSLASH, "c">>), String(<<"a", SP, "b">>),
     String(<<"a", HTAB>>), String(<<NONASCII>>), String(<<"a", DEL, "b">>)}

Tokens ==
    {Token(<<"t", "o", "k">>), Token(<<"*", "a", "/", ":">>), Token(<<"A", "1", ".", "b">>), Token(<<>>), Token(<<"1", "a">>),
     Token(<<"a", SP, "b">>), Token(<<"a", ";", "b">>), Token(<<"a", ",", "b">>), Token(<<DQUOTE>>)}

ByteSeqs ==
    {ByteSeq(<<>>), ByteSeq(<<104>>), ByteSeq(<<0, 255>>), ByteSeq(<<1, 2, 3>>),
     ByteSeq(<<250, 251, 252, 253>>)}

BareItems ==
    Integers \cup Decimals \cup Strings \cup Tokens \cup ByteSeqs
    \cup {Boolean(TRUE), Boolean(FALSE)}

\* The parameters the values are built with: valid ones, a Token that is
\* none, a key in upper case, an empty key.
ParamPairs ==
    {[key |-> <<"a">>, val |-> Boolean(TRUE)],
     [key |-> <<"a">>, val |-> Boolean(FALSE)],
     [key |-> <<"k", "e", "y">>, val |-> Integer(FALSE, <<1>>)],
     [key |-> <<"k", "e", "y">>, val |-> Boolean(TRUE)],
     [key |-> <<"k", "e", "y">>, val |-> Decimal(FALSE, <<1, 3>>, <<4, 5, 6, 5, 5>>)],
     [key |-> <<"*">>, val |-> String(<<"a", DQUOTE, "b", BACKSLASH, "c">>)],
     [key |-> <<"*">>, val |-> Boolean(TRUE)],
     [key |-> <<"a">>, val |-> Token(<<"1", "a">>)],
     [key |-> <<"A">>, val |-> Boolean(TRUE)],
     [key |-> <<>>, val |-> Integer(FALSE, <<1>>)]}

MaxParams == 2

\* The ordered map that the inserts of the pairs of `ps`, in turn, build.
RECURSIVE InsertAll(_, _)
InsertAll(m, ps) ==
    IF Len(ps) = 0 THEN m
    ELSE InsertAll(insert(m, ps[1].key, ps[1].val), Tail(ps))

MapsOf(pairs, n) == {InsertAll(<<>>, ps) : ps \in Strs(pairs, n)}

ParamMaps == MapsOf(ParamPairs, MaxParams)

Items ==
    {Item_with_params(b, p) : b \in BareItems, p \in ParamMaps}
    \cup {DocStrItem, DocParamItem}

InnerItems ==
    {Item_new(Integer(FALSE, <<1>>)), Item_new(Token(<<"t", "o", "k">>)),
     Item_with_params(String(<<"f", "o", "o">>), insert(Parameters_new, <<"a">>, Boolean(TRUE))),
     Item_new(Token(<<"1", "a">>))}

MaxInnerItems == 2

InnerLists ==
    {InnerList_with_params(its, p) :
        its \in Strs(InnerItems, MaxInnerItems),
        p \in {Parameters_new, insert(Parameters_new, <<"b", "a", "r">>, Boolean(TRUE))}}

\* The members the longer lists and dictionaries are built with.
MemberItems ==
    {Item_with_params(b, p) :
        b \in {Integer(FALSE, <<1>>), Token(<<"t", "o", "k">>), Boolean(TRUE),
               String(<<"a", DQUOTE, "b", BACKSLASH, "c">>), Token(<<"1", "a">>)},
        p \in {Parameters_new, insert(Parameters_new, <<"a">>, Boolean(TRUE))}}

ListEntries ==
    {ListEntry_Item(it) : it \in MemberItems}
    \cup {ListEntry_InnerList(InnerList_new(<<>>)),
          ListEntry_InnerList(DocInnerList),
          ListEntry_InnerList(
              InnerList_new(<<Item_new(Integer(FALSE, <<1>>)),
                              Item_new(Token(<<"t", "o", "k">>))>>))}

MaxMembers == 2

\* Every inner list alone, and the lists of at most MaxMembers members.
Lists ==
    Strs(ListEntries, MaxMembers)
    \cup {<<ListEntry_InnerList(il)>> : il \in InnerLists}
    \cup {DocList}

DictKeys == {<<"a">>, <<"k", "e", "y">>, <<"A">>}

Dictionaries ==
    MapsOf([key : DictKeys, val : ListEntries], MaxMembers)
    \cup {insert(Dictionary_new, <<"a">>, ListEntry_InnerList(il)) : il \in InnerLists}
    \cup {DocDict}

\* The state before a serialize: the caller holds `v`, of kind `kind`.
StartValue(kind, v) ==
    /\ op = "init"
    /\ input = <<>>
    /\ arg = kind
    /\ value = v
    /\ result = None
    /\ reparsed = None
    /\ dict = Dictionary_new
    /\ list = <<>>
    /\ data = <<>>
    /\ cursor = 1
    /\ acc = Dictionary_new
    /\ pc = "idle"

InitSer ==
    \/ \E v \in Items : StartValue("Item", v)
    \/ \E v \in Lists : StartValue("List", v)
    \/ \E v \in Dictionaries : StartValue("Dictionary", v)

\* serialize_value of the value's type.
serialize_value(kind, v) ==
    CASE kind = "Item" -> serialize_item(v)
      [] kind = "List" -> serialize_list(v)
      [] kind = "Dictionary" -> serialize_dict(v)

\* The entry point of the value's type.
parse_value(kind, inp) ==
    CASE kind = "Item" -> Parser_parse_item(inp)
      [] kind = "List" -> Parser_parse_list(inp)
      [] kind = "Dictionary" -> Parser_parse_dictionary(inp)

SerializeValue ==
    /\ op = "init"
    /\ op' = "serialize_value"
    /\ result' = serialize_value(arg, value)
    /\ input' = result'.text
    /\ UNCHANGED <<arg, value, reparsed, dict, list, data, cursor, acc, pc>>

\* The caller parses the text serialize_value returned.
ParseBack ==
    /\ op = "serialize_value"
    /\ result.ok
    /\ op' = "parse_back"
    /\ reparsed' = parse_value(arg, input)
    /\ UNCHANGED <<input, arg, value, result, dict, list, data, cursor, acc, pc>>

NextSer == SerializeValue \/ ParseBack

SpecSer == InitSer /\ [][NextSer]_vars

\* A value is in canonical form when no Decimal in it has more than 3
\* fractional digits, so that serializing it rounds nothing.
CanonBare(b) == b.t = "Decimal" => Len(b.fp) <= 3

CanonParams(p) == \A i \in 1..Len(p) : CanonBare(p[i].val)

CanonItem(it) == CanonBare(it.bare_item) /\ CanonParams(it.params)

CanonEntry(e) ==
    /\ CanonParams(e.params)
    /\ IF e.t = "Item" THEN CanonBare(e.bare_item)
       ELSE \A i \in 1..Len(e.items) : CanonItem(e.items[i])

Canonical(kind, v) ==
    CASE kind = "Item" -> CanonItem(v)
      [] kind = "List" -> \A i \in 1..Len(v) : CanonEntry(v[i])
      [] kind = "Dictionary" -> \A i \in 1..Len(v) : CanonEntry(v[i].val)

\* C1: round trip. For every value V that serializes, parsing the text
\* succeeds and serializing what was parsed gives the same text again; when V
\* is in canonical form, what was parsed is V.
C1_RoundTrip ==
    op = "parse_back" =>
        /\ reparsed.ok
        /\ serialize_value(arg, reparsed.val) = result
        /\ Canonical(arg, value) => reparsed.val = value

C1_Witness ==
    /\ op = "parse_back"
    /\ arg = "Dictionary"
    /\ Len(value) = 2
    /\ value[2].val.t = "InnerList"
    /\ Len(value[2].val.items) = 2
    /\ reparsed.val = value

\* What the grammar rules out: an Integer of more than 15 digits, a Decimal
\* of more than 12 integer digits, a String with a byte outside 0x20-0x7E, a
\* Token that is not the whole of one sf-token, a key that is not the whole
\* of one key.
IsToken(s) == parse_token(s, 1) = Ok(Len(s) + 1, Token(s))

IsKey(k) == parse_key(k, 1) = Ok(Len(k) + 1, k)

BadBare(b) ==
    CASE b.t = "Integer" -> Len(b.ip) > 15
      [] b.t = "Decimal" -> Len(b.ip) > 12
      [] b.t = "String"  -> \E i \in 1..Len(b.s) : b.s[i] \in {HTAB, DEL, NONASCII}
      [] b.t = "Token"   -> ~IsToken(b.s)
      [] OTHER -> FALSE

BadParams(p) == \E i \in 1..Len(p) : ~IsKey(p[i].key) \/ BadBare(p[i].val)

BadItem(it) == BadBare(it.bare_item) \/ BadParams(it.params)

BadEntry(e) ==
    \/ BadParams(e.params)
    \/ IF e.t = "Item" THEN BadBare(e.bare_item)
       ELSE \E i \in 1..Len(e.items) : BadItem(e.items[i])

Bad(kind, v) ==
    CASE kind = "Item" -> BadItem(v)
      [] kind = "List" -> \E i \in 1..Len(v) : BadEntry(v[i])
      [] kind = "Dictionary" ->
             \E i \in 1..Len(v) : ~IsKey(v[i].key) \/ BadEntry(v[i].val)

\* C3: serialize_value writes nothing outside the grammar. It fails on every
\* value that holds something the grammar rules out, and the text it returns
\* for any other value is accepted by the entry point of the value's type.
C3_GrammarOnly ==
    /\ (op \in {"serialize_value", "parse_back"} /\ Bad(arg, value)) => ~result.ok
    /\ op = "parse_back" => reparsed.ok

C3_Witness ==
    /\ op = "serialize_value"
    /\ arg = "Item"
    /\ value.bare_item = Integer(FALSE, <<1>> \o Rep(0, 15))
    /\ ~result.ok

StartsWith(txt, pre) == Len(txt) >= Len(pre) /\ SubSeq(txt, 1, Len(pre)) = pre

\* The byte of txt after its first n bytes, EOF at its end.
ByteAfter(txt, n) == Peek(txt, n + 1)

IsTrueItem(e) == e.t = "Item" /\ e.bare_item = Boolean(TRUE)

\* C9: Boolean(true) is written as a bare key. In the text of an Item the
\* first parameter is ";" and its key, followed by "=" exactly when its value
\* is not Boolean(true); in the text of a Dictionary the first key is followed
\* by "=" exactly when its value is not an Item of Boolean(true). Two members
\* of a List or Dictionary are joined by ", ", two items of an inner list by
\* one space. The documented List and Dictionary serialize to the documented
\* text.
C9_BareKey ==
    (op = "serialize_value" /\ result.ok) =>
        /\ (arg = "Item" /\ Len(value.params) > 0) =>
               LET base == serialize_bare_item(value.bare_item).text
                   p1   == value.params[1]
                   head == base \o <<";">> \o p1.key
               IN  /\ StartsWith(result.text, head)
                   /\ ByteAfter(result.text, Len(head)) = "="
                          <=> p1.val # Boolean(TRUE)
        /\ (arg = "Dictionary" /\ Len(value) > 0) =>
               /\ StartsWith(result.text, value[1].key)
               /\ ByteAfter(result.text, Len(value[1].key)) = "="
                      <=> ~IsTrueItem(value[1].val)
        /\ (arg \in {"List", "Dictionary"} /\ Len(value) = 2) =>
               result.text = serialize_value(arg, <<value[1]>>).text
                                 \o <<",", SP>>
                                 \o serialize_value(arg, <<value[2]>>).text
        /\ (arg = "List" /\ Len(value) = 1 /\ value[1].t = "InnerList"
              /\ Len(value[1].items) = 2) =>
               StartsWith(result.text,
                   <<"(">> \o serialize_item(value[1].items[1]).text \o <<SP>>
                   \o serialize_item(value[1].items[2]).text \o <<")">>)
        /\ (arg = "List" /\ value = DocList) => result.text = DocListText
        /\ (arg = "Dictionary" /\ value = DocDict) => result.text = DocDictText

C9_Witness ==
    /\ op = "serialize_value"
    /\ arg = "Dictionary"
    /\ value = DocDict
    /\ result.ok

(***************************************************************************)
(* SpecRound: serialize_value on an Item of one Decimal, over every        *)
(* fraction of at most MaxFracLen digits drawn from RoundDigits.           *)
(***************************************************************************)
MaxFracLen == 5

RoundDigits == {0, 2, 5, 6, 9}

RoundDecimals ==
    {Decimal(neg, ip, fp) :
        neg \in BOOLEAN, ip \in {<<0>>, <<1, 3>>, <<9, 9>>},
        fp \in {f \in Strs(RoundDigits, MaxFracLen) :
                   Len(f) = 0 \/ f[Len(f)] # 0}}
    \ {Decimal(TRUE, <<0>>, <<>>)}

InitRound ==
    \/ \E d \in RoundDecimals : StartValue("Item", Item_new(d))
    \/ StartValue("Item", DocParamItem)

NextRound == SerializeValue

SpecRound == InitRound /\ [][NextRound]_vars

\* The number a sequence of digits writes.
RECURSIVE NumOf(_)
NumOf(ds) ==
    IF Len(ds) = 0 THEN 0
    ELSE 10 * NumOf(SubSeq(ds, 1, Len(ds) - 1)) + ds[Len(ds)]

RECURSIVE Pow10(_)
Pow10(n) == IF n = 0 THEN 1 ELSE 10 * Pow10(n - 1)

\* The value of ip.fp in units of 10^-n, for n >= Len(fp).
Scaled(ip, fp, n) == NumOf(ip) * Pow10(n) + NumOf(fp) * Pow10(n - Len(fp))

Abs(x) == IF x < 0 THEN -x ELSE x

Unsigned(txt) == IF Len(txt) > 0 /\ txt[1] = "-" THEN Tail(txt) ELSE txt

DotAt(txt) == CHOOSE i \in 1..Len(txt) : txt[i] = "."

IntDigitsOf(txt) == Digits(txt, 1, DotAt(txt))

FracDigitsOf(txt) == Digits(txt, DotAt(txt) + 1, Len(txt) + 1)

\* C6: the text of a Decimal is the value rounded to 3 fractional digits,
\* half to even: it has one ".", 1 to 3 digits after it and no trailing zero
\* beyond the first, it is within half a thousandth of the value, and at
\* exactly half a thousandth its last digit is even. The documented item of
\* Integer 99 with key = 13.45655 is written 99;key=13.457.
C6_HalfEven ==
    op = "serialize_value" =>
        /\ value = DocParamItem => result.text = DocParamItemText
        /\ value.bare_item.t = "Decimal" =>
               LET d    == value.bare_item
                   txt  == Unsigned(result.text)
                   frac == FracDigitsOf(txt)
                   unit == Pow10(MaxFracLen - 3)
                   wrote == Scaled(IntDigitsOf(txt), frac, 3)
                   diff == Abs(unit * wrote - Scaled(d.ip, d.fp, MaxFracLen))
               IN  /\ result.ok
                   /\ Cardinality({i \in 1..Len(txt) : txt[i] = "."}) = 1
                   /\ Len(frac) \in 1..3
                   /\ Len(frac) > 1 => frac[Len(frac)] # 0
                   /\ 2 * diff < unit \/ (2 * diff = unit /\ wrote % 2 = 0)
                   /\ (d.neg /\ wrote # 0) => result.text[1] = "-"
                   /\ ~d.neg => result.text[1] # "-"

C6_Witness ==
    /\ op = "serialize_value"
    /\ \/ value = DocParamItem
       \/ /\ value.bare_item = Decimal(FALSE, <<0>>, <<0, 0, 2, 5>>)
          /\ result.text = <<"0", ".", "0", "0", "2">>

(***************************************************************************)
(* parse_more: the chunk is parsed whole, and only a chunk that parsed is  *)
(* added to the target. The result is [ok, target].                        *)
(***************************************************************************)
\* The members of the List loop at the point it stopped, error or not.
RECURSIVE partial_loop(_, _, _)
partial_next(inp, r) ==
    IF r.st = "more" THEN partial_loop(inp, r.pos, r.val) ELSE r.val

partial_loop(inp, pos, members) ==
    IF Peek(inp, pos) = EOF THEN members
    ELSE partial_next(inp, list_step(inp, pos, members))

\* parse_more with a bug: the chunk is parsed straight into the target.
parse_more_list_partial(target, inp) ==
    [ok |-> Parser_parse_list(inp).ok,
     target |-> partial_loop(inp, leading(inp), target)]

\* Vec::extend
list_extend(target, r) ==
    IF r.ok THEN [ok |-> TRUE, target |-> target \o r.val]
    ELSE [ok |-> FALSE, target |-> target]

\* IndexMap::extend: insert of every member, in order.
dict_extend(target, r) ==
    IF r.ok THEN [ok |-> TRUE, target |-> InsertAll(target, r.val)]
    ELSE [ok |-> FALSE, target |-> target]

parse_more_list(target, inp) == list_extend(target, Parser_parse_list(inp))

parse_more_dict(target, inp) == dict_extend(target, Parser_parse_dictionary(inp))

(***************************************************************************)
(* SpecMap: a caller holds one collection (value names its type: a List in *)
(* list, a Dictionary or a Parameters map in dict) and keeps changing it:  *)
(* insert of a key, a fresh parse that replaces it, parse_more of a chunk. *)
(* A chunk is written from its members and a tail that makes it fail or    *)
(* not.                                                                    *)
(***************************************************************************)
MaxChunk == 2

MaxListLen == 3

MapKeys == {<<"a">>, <<"b">>}

MapNums == {1, 2}

BareOf(n) == Integer(FALSE, <<n>>)

EntryOf(n) == ListEntry_Item(Item_new(BareOf(n)))

ValOf(kind, n) == IF kind = "Parameters" THEN BareOf(n) ELSE EntryOf(n)

Pairs == Strs([key : MapKeys, val : MapNums], MaxChunk)

Nums == Strs(MapNums, MaxChunk)

Tails == {<<>>, <<SP>>, <<",">>, <<",", SP, "?">>}

RECURSIVE Join(_)
Join(texts) ==
    IF Len(texts) = 0 THEN <<>>
    ELSE IF Len(texts) = 1 THEN texts[1]
    ELSE texts[1] \o <<",", SP>> \o Join(Tail(texts))

RECURSIVE Concat(_)
Concat(texts) ==
    IF Len(texts) = 0 THEN <<>> ELSE texts[1] \o Concat(Tail(texts))

PairText(p) == p.key \o <<"=", DigitChar(p.val)>>

ListText(ns, tail) == Join([i \in 1..Len(ns) |-> <<DigitChar(ns[i])>>]) \o tail

MapText(kind, ps, tail) ==
    IF kind = "Dictionary"
    THEN Join([i \in 1..Len(ps) |-> PairText(ps[i])]) \o tail
    ELSE <<"1">> \o Concat([i \in 1..Len(ps) |-> <<";">> \o PairText(ps[i])])
         \o tail

\* The members a chunk was written from.
MembersOf(kind, ps) ==
    [i \in 1..Len(ps) |-> [key |-> ps[i].key, val |-> ValOf(kind, ps[i].val)]]

EntriesOf(ns) == [i \in 1..Len(ns) |-> EntryOf(ns[i])]

InitMap ==
    \E kind \in {"List", "Dictionary", "Parameters"} :
        /\ op = "init"
        /\ input = <<>>
        /\ arg = <<>>
        /\ value = kind
        /\ result = None
        /\ reparsed = None
        /\ dict = Dictionary_new
        /\ list = <<>>
        /\ data = <<>>
        /\ cursor = 1
        /\ acc = Dictionary_new
        /\ pc = "idle"

\* dict.insert(k, v)
Insert ==
    /\ value \in {"Dictionary", "Parameters"}
    /\ \E k \in MapKeys, n \in MapNums :
           /\ op' = "insert"
           /\ arg' = [key |-> k, val |-> ValOf(value, n)]
           /\ dict' = insert(dict, k, ValOf(value, n))
    /\ input' = <<>>
    /\ result' = None
    /\ UNCHANGED <<value, reparsed, list, data, cursor, acc, pc>>

params_of(r) == IF r.ok THEN Ok(r.pos, r.val.params) ELSE r

parse_map(kind, inp) ==
    IF kind = "Dictionary" THEN Parser_parse_dictionary(inp)
    ELSE params_of(Parser_parse_item(inp))

\* The caller's first step: it parses a text and, when that worked, holds the
\* map it gave.
ParseNew ==
    /\ op = "init"
    /\ value \in {"Dictionary", "Parameters"}
    /\ \E ps \in Pairs, tail \in Tails :
           /\ op' = "parse"
           /\ input' = MapText(value, ps, tail)
           /\ arg' = MembersOf(value, ps)
    /\ result' = parse_map(value, input')
    /\ dict' = IF result'.ok THEN result'.val ELSE dict
    /\ UNCHANGED <<value, reparsed, list, data, cursor, acc, pc>>

ParseMoreList ==
    /\ value = "List"
    /\ \E ns \in Nums, tail \in Tails :
           /\ Len(list) + Len(ns) <= MaxListLen
           /\ op' = "parse_more"
           /\ input' = ListText(ns, tail)
           /\ arg' = EntriesOf(ns)
    /\ result' = parse_more_list(list, input')
    /\ list' = result'.target
    /\ UNCHANGED <<value, reparsed, dict, data, cursor, acc, pc>>

ParseMoreDict ==
    /\ value = "Dictionary"
    /\ \E ps \in Pairs, tail \in Tails :
           /\ op' = "parse_more"
           /\ input' = MapText(value, ps, tail)
           /\ arg' = MembersOf(value, ps)
    /\ result' = parse_more_dict(dict, input')
    /\ dict' = result'.target
    /\ UNCHANGED <<value, reparsed, list, data, cursor, acc, pc>>

NextMap == Insert \/ ParseNew \/ ParseMoreList \/ ParseMoreDict

SpecMap == InitMap /\ [][NextMap]_vars

\* What a sequence of members comes to as a map, said without insert: one
\* entry per key, in the order of the keys' first members, each with the
\* value of the key's last member.
FirstAt(ms, i) == \A j \in 1..(i - 1) : ms[j].key # ms[i].key

LastOf(ms, k) ==
    ms[CHOOSE j \in 1..Len(ms) :
          /\ ms[j].key = k
          /\ \A h \in (j + 1)..Len(ms) : ms[h].key # k].val

RECURSIVE FirstsFrom(_, _)
FirstsFrom(ms, i) ==
    IF i > Len(ms) THEN <<>>
    ELSE IF FirstAt(ms, i)
    THEN <<[key |-> ms[i].key, val |-> LastOf(ms, ms[i].key)]>>
         \o FirstsFrom(ms, i + 1)
    ELSE FirstsFrom(ms, i + 1)

MapOf(ms) == FirstsFrom(ms, 1)

NoKeyTwice(m) == \A i, j \in 1..Len(m) : m[i].key = m[j].key => i = j

\* A re-inserted key keeps its place and takes the value; a new key is last.
InsertedInPlace(old, new, k, v) ==
    IF k \in Keys(old)
    THEN /\ Len(new) = Len(old)
         /\ \A i \in 1..Len(old) :
                /\ new[i].key = old[i].key
                /\ new[i].val = IF old[i].key = k THEN v ELSE old[i].val
    ELSE new = old \o <<[key |-> k, val |-> v]>>

TextA1A2 == <<"a", "=", "1", ",", SP, "a", "=", "2">>

\* C4: in a Dictionary or Parameters map no key ever occurs twice; insert of
\* a key already there replaces the value where the key first came and adds
\* no entry, insert of a new key adds it last; a parsed map has one entry per
\* key, in first-introduction order, with the later value; "a=1, a=2" parses
\* to the one entry a = 2.
C4_KeysUnique ==
    /\ [](NoKeyTwice(dict))
    /\ [][/\ op' = "insert" =>
                 InsertedInPlace(dict, dict', arg'.key, arg'.val)
          /\ (op' = "parse" /\ result'.ok) => dict' = MapOf(arg')
          /\ (op' = "parse" /\ input' = TextA1A2) =>
                 dict' = <<[key |-> <<"a">>, val |-> EntryOf(2)]>>]_vars

C4_Witness ==
    \/ /\ op = "parse"
       /\ input = TextA1A2
       /\ dict = <<[key |-> <<"a">>, val |-> EntryOf(2)]>>
    \/ /\ op = "insert"
       /\ value = "Parameters"
       /\ arg = [key |-> <<"a">>, val |-> BareOf(2)]
       /\ dict = <<[key |-> <<"a">>, val |-> BareOf(2)],
                   [key |-> <<"b">>, val |-> BareOf(1)]>>

AllSpaces(inp) == Len(inp) > 0 /\ AllIn(inp, {SP})

\* The Dictionary after a chunk that parsed to the map `more`: the previous
\* entries in their order, each with the chunk's value when the chunk has its
\* key, then the chunk's entries with new keys.
Merged(old, more) ==
    LET IsNew(e) == e.key \notin Keys(old)
    IN  [i \in 1..Len(old) |->
            [key |-> old[i].key,
             val |-> IF old[i].key \in Keys(more)
                     THEN LastOf(more, old[i].key) ELSE old[i].val]]
        \o SelectSeq(more, IsNew)

MaxFuzzLen == 4

FuzzAlphabet == {"a", "=", ",", ";", SP, "(", ")", NONASCII}

InitFuzz ==
    \E bytes \in Strs(FuzzAlphabet, MaxFuzzLen) :
        /\ op = "init"
        /\ input = <<>>
        /\ arg = <<>>
        /\ value = <<>>
        /\ result = None
        /\ reparsed = None
        /\ dict = Dictionary_new
        /\ list = <<>>
        /\ data = bytes
        /\ cursor = 1
        /\ acc = Dictionary_new
        /\ pc = "called"

FuzzLeading ==
    /\ pc = "called"
    /\ op' = "parse_dictionary"
    /\ cursor' = leading(data)
    /\ pc' = "loop"
    /\ UNCHANGED <<input, arg, value, result, reparsed, dict, list, data, acc>>

FuzzMember ==
    /\ pc = "loop"
    /\ Peek(data, cursor) # EOF
    /\ LET r == dict_step(data, cursor, acc)
       IN  /\ cursor' = r.pos
           /\ acc' = r.val
           /\ pc' = CASE r.st = "more" -> "loop"
                      [] r.st = "done" -> "trailing"
                      [] OTHER -> "failed"
    /\ UNCHANGED <<op, input, arg, value, result, reparsed, dict, list, data>>

FuzzLoopEnd ==
    /\ pc = "loop"
    /\ Peek(data, cursor) = EOF
    /\ pc' = "trailing"
    /\ UNCHANGED <<op, input, arg, value, result, reparsed, dict, list, data,
                   cursor, acc>>

FuzzTrailing ==
    /\ pc = "trailing"
    /\ result' = trailing(data, Ok(cursor, acc))
    /\ cursor' = result'.pos
    /\ pc' = "returned"
    /\ UNCHANGED <<op, input, arg, value, reparsed, dict, list, data, acc>>

FuzzFail ==
    /\ pc = "failed"
    /\ result' = Err(cursor)
    /\ pc' = "returned"
    /\ UNCHANGED <<op, input, arg, value, reparsed, dict, list, data, cursor,
                   acc>>

NextFuzz == FuzzLeading \/ FuzzMember \/ FuzzLoopEnd \/ FuzzTrailing \/ FuzzFail

\* The call runs on one thread until it returns.
SpecFuzz == InitFuzz /\ [][NextFuzz]_vars /\ WF_vars(NextFuzz)

IsDictionary(m) ==
    /\ NoKeyTwice(m)
    /\ \A i \in 1..Len(m) : valid_key(m[i].key)

\* C2: on every byte sequence parse_dictionary returns, with a Dictionary or
\* with an error; its cursor stays within the input or one past its last
\* byte, never moves back, and moves forward in every turn of the loop that
\* is followed by another.
C2_Total ==
    /\ <>(pc = "returned")
    /\ [](/\ cursor \in 1..(Len(data) + 1)
          /\ pc = "returned" =>
                 /\ result = Parser_parse_dictionary(data)
                 /\ result.ok => IsDictionary(result.val))
    /\ [][/\ cursor' >= cursor
          /\ (pc = "loop" /\ pc' = "loop") => cursor' > cursor]_vars

C2_Witness ==
    /\ pc = "returned"
    /\ ~result.ok
    /\ NONASCII \in Range(data)
    /\ Len(acc) = 1
    /\ cursor = Len(data)

====
